---- MODULE Spec2Model ----
(***************************************************************************)
(* A model of the indexing and retrieval engine of youtube-topic-seeker    *)
(* (src/src/phase3_rag.py, class TopicSearchRAG).                           *)
(*                                                                         *)
(* Numbers that are floats in the program (distances, relevances) are      *)
(* integers here, in units of 1/10000: 7000 stands for 0.7.                 *)
(***************************************************************************)
EXTENDS Integers, Sequences, FiniteSets, TLC

(***************************************************************************)
(* Bounds of the model.                                                    *)
(***************************************************************************)
MaxK == 2
MaxStoreDocs == 4
MaxTenantDocs == 4
MaxFiles == 2
MaxBuilds == 2
MaxAnswers == 1
MaxSegments == 6
MaxUrlLen == 3
MaxSentences == 2
MaxBatchDocs == 6
MaxRetryAnswers == 3

(***************************************************************************)
(* Program constants.                                                      *)
(***************************************************************************)
One == 10000
similarity_threshold == 7000
RoundStep == 10
chunk_size == 1000
chunk_overlap == 200
OverlapSegments == 3
batch_size == 50
default_max_retries == 3
token_margin == 200000
reduce_factor == 100

NoChannel == "none"
Default == "default"
NoStore == "nostore"
Tenants == {"chA", "chB"}
TenantOrders == {<<"chA", "chB">>, <<"chB", "chA">>}
\* Distances a store reports: relevances 0.9, 0.7004, 0.7001 and 0.6996.
Scores == {1000, 2996, 2999, 3004}
StoreStatus == {"ok", "missing", "openfail", "queryfail"}
StoreIds == Tenants \cup {Default}
EmptyStore == [status |-> "ok", docs |-> <<>>]

VARIABLES
    channels,       \* ChannelManager.channels: the channel ids in iteration order
    enabled,        \* ChannelInfo.enabled of each channel
    stores,         \* the per-channel Chroma stores: status and documents
    vectorstore,    \* self.vectorstore: the loaded default store, or NoStore
    searchOut,      \* what the last search call returned
    files,          \* the *_enhanced.json files of the input directory
    store,          \* the documents in the store directory being built
    build_info_json,\* build_info.json of that directory
    last,           \* the last build_vectorstore call and its report
    builds,         \* the number of build_vectorstore calls so far
    dirty,          \* a file arrived after the last build
    allIncremental, \* every build so far was incremental
    call,           \* the arguments of the helper method under check
    ret             \* what the helper method returned

buildVars ==
    <<files, store, build_info_json, last, builds, dirty, allIncremental>>

fnVars == <<call, ret>>

\* No helper method is under check, or it has not returned yet.
NoCall == [op |-> "none"]

vars == <<channels, enabled, stores, vectorstore, searchOut, call, ret,
          files, store, build_info_json, last, builds, dirty, allIncremental>>

(***************************************************************************)
(* Helpers on sequences.                                                   *)
(***************************************************************************)
RECURSIVE SeqsUpTo(_, _)
SeqsUpTo(S, n) ==
    IF n = 0 THEN {<<>>}
    ELSE LET shorter == SeqsUpTo(S, n - 1)
         IN shorter \cup {Append(s, x) : s \in shorter, x \in S}

Prefix(s, n) == SubSeq(s, 1, IF n < Len(s) THEN n ELSE Len(s))

(***************************************************************************)
(* search_topics                                                           *)
(***************************************************************************)
\* vectorstore.similarity_search_with_score(query, k=n): the n nearest
\* documents with their distances, nearest first. A store's docs are listed
\* in the order its index ranks them for the query.
similarity_search_with_score(docs, n) == Prefix(docs, n)

\* round(relevance, 3), to the nearest multiple of 0.001 (ties to even).
Round3(x) ==
    LET q == x \div RoundStep
        r == x % RoundStep
    IN IF 2 * r < RoundStep THEN q * RoundStep
       ELSE IF 2 * r > RoundStep THEN (q + 1) * RoundStep
       ELSE IF q % 2 = 0 THEN q * RoundStep ELSE (q + 1) * RoundStep

\* relevance = 1.0 - score
Relevance(score) == One - score

\* if relevance >= self.config.rag.similarity_threshold
AboveFloorAlways(rel) == TRUE
AboveFloor(rel) == rel >= similarity_threshold

\* k=max_results * 2: the number of neighbours asked of the store.
FetchSize(max_results) == max_results * 2

\* relevant_docs.sort(key=lambda x: x[1], reverse=True)
\* list.sort with reverse=True is descending by key and stable: elements of
\* equal key keep their relative order.
SortByRelevanceUnstable(relevant_docs) ==
    LET n == Len(relevant_docs)
        key(i) == relevant_docs[i].relevance
        pos(i) == Cardinality({j \in 1..n : key(j) > key(i)
                                  \/ (key(j) = key(i) /\ j > i)}) + 1
    IN [p \in 1..n |-> relevant_docs[CHOOSE i \in 1..n : pos(i) = p]]

SortByRelevance(relevant_docs) ==
    LET n == Len(relevant_docs)
        key(i) == relevant_docs[i].relevance
        pos(i) == Cardinality({j \in 1..n : key(j) > key(i)
                                  \/ (key(j) = key(i) /\ j < i)}) + 1
    IN [p \in 1..n |-> relevant_docs[CHOOSE i \in 1..n : pos(i) = p]]

\* The body of search_topics once a store handle is at hand (the try block).
RankStore(docs, ch, max_results) ==
    LET docs_with_scores ==
            similarity_search_with_score(docs, FetchSize(max_results))
        scored == [i \in 1..Len(docs_with_scores) |->
                     [doc |-> docs_with_scores[i].doc,
                      relevance |-> Relevance(docs_with_scores[i].score)]]
        relevant_docs == SelectSeq(scored, LAMBDA d : AboveFloor(d.relevance))
        sorted == SortByRelevance(relevant_docs)
        top == Prefix(sorted, max_results)
    IN [i \in 1..Len(top) |->
          [doc |-> top[i].doc,
           relevance_score |-> Round3(top[i].relevance),
           channel_id |-> ch]]

\* The try block of search_topics on an opened store: a failing query is
\* caught and gives the empty list.
QueryStore(st, ch, max_results) ==
    IF st.status = "ok" THEN RankStore(st.docs, ch, max_results) ELSE <<>>

\* search_topics(query, max_results, channel_id). raised is TRUE when the
\* call lets an exception through (Chroma(...) is opened outside the try).
search_topics(vs, sts, ch, max_results) ==
    IF ch # NoChannel
    THEN IF sts[ch].status = "missing"
         THEN [raised |-> FALSE, requested |-> 0, results |-> <<>>]
         ELSE IF sts[ch].status = "openfail"
         THEN [raised |-> TRUE, requested |-> 0, results |-> <<>>]
         ELSE [raised |-> FALSE, requested |-> FetchSize(max_results),
               results |-> QueryStore(sts[ch], ch, max_results)]
    ELSE IF vs = NoStore
         THEN [raised |-> FALSE, requested |-> 0, results |-> <<>>]
         ELSE [raised |-> FALSE, requested |-> FetchSize(max_results),
               results |-> QueryStore(sts[vs], ch, max_results)]

(***************************************************************************)
(* search_unified                                                          *)
(***************************************************************************)
\* get_enabled_channels(): the enabled channels, in the registry's order.
get_enabled_channels(chs, en) == SelectSeq(chs, LAMBDA c : en[c])

\* for result in channel_results: tag it with the channel.
TagResults(rs, ch) ==
    [i \in 1..Len(rs) |->
       [doc |-> rs[i].doc, relevance_score |-> rs[i].relevance_score,
        channel_id |-> ch, channel_name |-> ch]]

\* One pass of the loop over the enabled channels: acc is all_results so
\* far, with raised set when an exception leaves the loop.
ChannelStepNoCatch(acc, vs, sts, ch, max_results, channel_filter) ==
    IF acc.raised THEN acc
    ELSE IF channel_filter # NoChannel /\ channel_filter # ch THEN acc
    ELSE LET r == search_topics(vs, sts, ch, max_results * 2)
         IN IF r.raised THEN [raised |-> TRUE, results |-> <<>>]
            ELSE [raised |-> FALSE,
                  results |-> acc.results \o TagResults(r.results, ch)]

ChannelStepCapped(acc, vs, sts, ch, max_results, channel_filter) ==
    IF channel_filter # NoChannel /\ channel_filter # ch THEN acc
    ELSE LET r == search_topics(vs, sts, ch, max_results * 2)
         IN IF r.raised THEN acc
            ELSE [raised |-> FALSE,
                  results |-> Prefix(acc.results \o TagResults(r.results, ch),
                                     max_results)]

ChannelStep(acc, vs, sts, ch, max_results, channel_filter) ==
    IF channel_filter # NoChannel /\ channel_filter # ch THEN acc
    ELSE LET r == search_topics(vs, sts, ch, max_results * 2)
         IN IF r.raised THEN acc
            ELSE [raised |-> FALSE,
                  results |-> acc.results \o TagResults(r.results, ch)]

RECURSIVE CollectResults(_, _, _, _, _)
CollectResults(echs, vs, sts, max_results, channel_filter) ==
    IF echs = <<>> THEN [raised |-> FALSE, results |-> <<>>]
    ELSE ChannelStep(CollectResults(SubSeq(echs, 1, Len(echs) - 1), vs, sts,
                                    max_results, channel_filter),
                     vs, sts, echs[Len(echs)], max_results, channel_filter)

\* all_results.sort(key=lambda x: x['relevance_score'], reverse=True)
SortByScore(all_results) ==
    LET n == Len(all_results)
        key(i) == all_results[i].relevance_score
        pos(i) == Cardinality({j \in 1..n : key(j) > key(i)
                                  \/ (key(j) = key(i) /\ j < i)}) + 1
    IN [p \in 1..n |-> all_results[CHOOSE i \in 1..n : pos(i) = p]]

\* search_unified(query, max_results, channel_filter)
search_unified(chs, en, vs, sts, max_results, channel_filter) ==
    LET enabled_channels == get_enabled_channels(chs, en)
        all == CollectResults(enabled_channels, vs, sts, max_results,
                              channel_filter)
    IN IF enabled_channels = <<>> THEN [raised |-> FALSE, results |-> <<>>]
       ELSE IF all.raised THEN [raised |-> TRUE, results |-> <<>>]
       ELSE [raised |-> FALSE,
             results |-> Prefix(SortByScore(all.results), max_results)]

(***************************************************************************)
(* Transcript text. A text is its words, as the sequence of their lengths, *)
(* joined by single spaces; lead is 1 when the text starts with a space    *)
(* (a tail cut out of a longer text can).                                  *)
(***************************************************************************)
NoText == [lead |-> 0, ws |-> <<>>]

RECURSIVE SumSeq(_)
SumSeq(s) == IF s = <<>> THEN 0 ELSE s[1] + SumSeq(Tail(s))

\* len(text)
TextLen(t) ==
    IF t.ws = <<>> THEN 0 ELSE t.lead + SumSeq(t.ws) + Len(t.ws) - 1

\* len(text.split())
WordCount(t) == Len(t.ws)

\* current_chunk += " "; current_chunk += segment_text
JoinText(cur, seg) ==
    IF cur.ws = <<>> THEN seg
    ELSE [lead |-> cur.lead, ws |-> cur.ws \o seg.ws]

\* The last k characters of the words ws joined by spaces, 0 < k < length.
RECURSIVE TailWords(_, _)
TailWords(ws, k) ==
    LET w == ws[Len(ws)]
        front == SubSeq(ws, 1, Len(ws) - 1)
    IN IF k <= w THEN [lead |-> 0, ws |-> <<k>>]
       ELSE IF k = w + 1 THEN [lead |-> 1, ws |-> <<w>>]
       ELSE LET r == TailWords(front, k - w - 1)
            IN [lead |-> r.lead, ws |-> Append(r.ws, w)]

\* text[-k:] for k > 0
TailText(t, k) == IF k >= TextLen(t) THEN t ELSE TailWords(t.ws, k)

(***************************************************************************)
(* _process_video_for_vectorstore                                          *)
(***************************************************************************)
\* The loop state before the first segment: i is the position of the
\* segment the loop is at (from 1). has_start is FALSE while
\* current_start_time is None (current_start_seconds is then not read).
ChunkerStart ==
    [i |-> 1, current_chunk |-> NoText, has_start |-> FALSE,
     current_start_seconds |-> 0,
     chunk_segments |-> <<>>, documents |-> <<>>]

\* self.config.rag, as far as the chunker reads it.
RAGConfig == [chunk_size |-> chunk_size, chunk_overlap |-> chunk_overlap]

\* current_start_seconds of the chunk that follows a chunk of the segments
\* at positions segs: that of the third segment from its end.
OverlapStartSecondsFirst(segments, segs) == segments[1].start_seconds

OverlapStartSeconds(segments, segs) ==
    LET overlap_start_idx ==
            IF Len(segs) - OverlapSegments > 0 THEN Len(segs) - OverlapSegments
            ELSE 0
    IN segments[segs[overlap_start_idx + 1]].start_seconds

\* One pass of the loop over the segments, under the configuration rag.
\* chunk_segments holds the positions of the segments; a document carries
\* the chunk_segments it was made of, which segment_count counts.
ChunkerStep(rag, st, segments, video_id) ==
    LET i == st.i
        segment == segments[i]
        fresh == ~st.has_start
        start == IF fresh THEN segment.start_seconds
                 ELSE st.current_start_seconds
        segs == Append(IF fresh THEN <<>> ELSE st.chunk_segments, i)
        chunk == JoinText(st.current_chunk, segment.text)
        chunk_length == TextLen(chunk)
        next_segment_exists == i < Len(segments)
        complete == \/ chunk_length >= rag.chunk_size
                    \/ ~next_segment_exists
                    \/ (next_segment_exists
                        /\ chunk_length >= rag.chunk_size - rag.chunk_overlap)
        doc == [video_id |-> video_id,
                chunk |-> Len(st.documents) + 1,
                page_content |-> chunk,
                start_seconds |-> start,
                end_seconds |-> segment.end_seconds,
                segment_count |-> Len(segs),
                chunk_segments |-> segs]
        overlap_start_idx ==
            IF Len(segs) - OverlapSegments > 0 THEN Len(segs) - OverlapSegments
            ELSE 0
    IN IF segment.text.ws = <<>> THEN [st EXCEPT !.i = i + 1]
       ELSE IF ~complete
       THEN [st EXCEPT !.i = i + 1,
                       !.current_chunk = chunk,
                       !.has_start = TRUE,
                       !.current_start_seconds = start,
                       !.chunk_segments = segs]
       ELSE IF next_segment_exists /\ rag.chunk_overlap > 0
       THEN [i |-> i + 1,
             current_chunk |-> TailText(chunk, rag.chunk_overlap),
             has_start |-> TRUE,
             current_start_seconds |-> OverlapStartSeconds(segments, segs),
             chunk_segments |-> SubSeq(segs, overlap_start_idx + 1, Len(segs)),
             documents |-> Append(st.documents, doc)]
       ELSE [i |-> i + 1,
             current_chunk |-> NoText, has_start |-> FALSE,
             current_start_seconds |-> 0,
             chunk_segments |-> <<>>,
             documents |-> Append(st.documents, doc)]

\* for i, segment in enumerate(segments)
RECURSIVE ChunkerLoop(_, _, _, _)
ChunkerLoop(rag, st, segments, video_id) ==
    IF st.i > Len(segments) THEN st
    ELSE ChunkerLoop(rag, ChunkerStep(rag, st, segments, video_id),
                     segments, video_id)

\* The method without its last step: what is left in current_chunk after
\* the loop is not made a chunk.
process_video_without_final_chunk(rag, video_data) ==
    LET segments == video_data.segments
        st == ChunkerLoop(rag, ChunkerStart, segments, video_data.video_id)
    IN IF segments = <<>> THEN [documents |-> <<>>, segments |-> 0]
       ELSE [documents |-> st.documents, segments |-> Len(segments)]

\* The documents of a video and its number of segments.
process_video_for_vectorstore(rag, video_data) ==
    LET segments == video_data.segments
        st == ChunkerLoop(rag, ChunkerStart, segments, video_data.video_id)
        final == [video_id |-> video_data.video_id,
                  chunk |-> Len(st.documents) + 1,
                  page_content |-> st.current_chunk,
                  start_seconds |-> st.current_start_seconds,
                  end_seconds |-> segments[Len(segments)].end_seconds,
                  segment_count |-> Len(st.chunk_segments),
                  chunk_segments |-> st.chunk_segments]
    IN IF segments = <<>> THEN [documents |-> <<>>, segments |-> 0]
       ELSE IF st.current_chunk.ws # <<>>
       THEN [documents |-> Append(st.documents, final),
             segments |-> Len(segments)]
       ELSE [documents |-> st.documents, segments |-> Len(segments)]

(***************************************************************************)
(* _create_timestamp_url. A string is the sequence of its characters; an   *)
(* Optional[float] is given or not, and counted in tenths of a second.     *)
(***************************************************************************)
NoSeconds == [given |-> FALSE, tenths |-> 0]
SecondsOf(tenths) == [given |-> TRUE, tenths |-> tenths]

DigitChars == <<"0", "1", "2", "3", "4", "5", "6", "7", "8", "9">>

\* str(n) for n >= 0, as f"{seconds}" renders it
RECURSIVE IntToStr(_)
IntToStr(n) ==
    IF n < 10 THEN <<DigitChars[n + 1]>>
    ELSE Append(IntToStr(n \div 10), DigitChars[(n % 10) + 1])

\* int(start_seconds): towards zero
IntOf(tenths) == IF tenths >= 0 THEN tenths \div 10 ELSE -((-tenths) \div 10)

\* '?' in video_url
Contains(str, c) == \E i \in 1..Len(str) : str[i] = c

create_timestamp_url_always_question(video_url, start_seconds) ==
    IF ~start_seconds.given \/ start_seconds.tenths = 0
       \/ start_seconds.tenths <= 0
    THEN video_url
    ELSE video_url \o <<"?", "t", "=">>
             \o IntToStr(IntOf(start_seconds.tenths)) \o <<"s">>

create_timestamp_url(video_url, start_seconds) ==
    IF ~start_seconds.given \/ start_seconds.tenths = 0
       \/ start_seconds.tenths <= 0
    THEN video_url
    ELSE LET seconds == IntOf(start_seconds.tenths)
         IN IF Contains(video_url, "?")
            THEN video_url \o <<"&", "t", "=">> \o IntToStr(seconds) \o <<"s">>
            ELSE video_url \o <<"?", "t", "=">> \o IntToStr(seconds) \o <<"s">>

(***************************************************************************)
(* _generate_topic_summary. A text is its length and the number of its     *)
(* characters that _fix_encoding_issues removes (junk); a chunk text is    *)
(* the sequence of its sentences, stripped, one punctuation mark between   *)
(* two of them, each with its overlap with the query.                      *)
(***************************************************************************)
summary_limit == 150
summary_cut == 147
ellipsis_len == 3
min_sentence_len == 10
meaningful_len == 20
preview_len == 100

\* _fix_encoding_issues(text): what is left of the text
fix_encoding_issues(text) == [length |-> text.length - text.junk, junk |-> 0]

\* summary[:147] + "..." if len(summary) > 150
Truncate(text) ==
    IF text.length > summary_limit
    THEN [length |-> summary_cut + ellipsis_len, junk |-> 0]
    ELSE text

\* The position in the content of the last character of sentence i.
RECURSIVE EndOf(_, _)
EndOf(sentences, i) ==
    IF i = 0 THEN 0
    ELSE EndOf(sentences, i - 1) + (IF i > 1 THEN 1 ELSE 0)
             + sentences[i].length

\* len(content)
ContentLen(sentences) == EndOf(sentences, Len(sentences))

\* The junk of the first sentences, those that end within limit characters
\* (the junk of a sentence is at its end).
RECURSIVE JunkWithin(_, _, _)
JunkWithin(sentences, i, limit) ==
    IF i = 0 THEN 0
    ELSE JunkWithin(sentences, i - 1, limit)
             + (IF EndOf(sentences, i) <= limit THEN sentences[i].junk ELSE 0)

\* _extract_key_sentences(content, query): the sentence of ten characters
\* or more with the largest overlap (the first of them), else the first
\* sentence of more than twenty characters, else the start of the content.
extract_key_sentences(sentences) ==
    LET relevant == {i \in 1..Len(sentences) :
                        /\ sentences[i].length >= min_sentence_len
                        /\ sentences[i].overlap > 0}
        best == CHOOSE i \in relevant :
                    \A j \in relevant :
                       \/ sentences[j].overlap < sentences[i].overlap
                       \/ (sentences[j].overlap = sentences[i].overlap /\ i <= j)
        meaningful == {i \in 1..Len(sentences) :
                          sentences[i].length > meaningful_len}
        first == CHOOSE i \in meaningful : \A j \in meaningful : i <= j
        text(i) == [length |-> sentences[i].length, junk |-> sentences[i].junk]
        length == ContentLen(sentences)
        result ==
            IF length > preview_len
            THEN [length |-> preview_len + ellipsis_len,
                  junk |-> JunkWithin(sentences, Len(sentences), preview_len)]
            ELSE [length |-> length,
                  junk |-> JunkWithin(sentences, Len(sentences), length)]
    IN IF relevant # {} THEN fix_encoding_issues(text(best))
       ELSE IF meaningful # {} THEN fix_encoding_issues(text(first))
       ELSE fix_encoding_issues(result)

\* _generate_topic_summary(content, query): llm is what self.llm.invoke
\* does, an exception or a response.
generate_topic_summary(llm, sentences) ==
    IF llm.raises THEN extract_key_sentences(sentences)
    ELSE Truncate(fix_encoding_issues(llm.response))

(***************************************************************************)
(* The persistent store of a build, as the number of copies it holds of    *)
(* each chunk of each video (add_documents gives every copy a fresh id).   *)
(***************************************************************************)
NoDocs == <<>>

\* The chunk a document is: its video and its position among the chunks.
DocKey(d) == <<d.video_id, d.chunk>>

Copies(st, key) == IF key \in DOMAIN st THEN st[key] ELSE 0

\* vectorstore.add_documents(documents): one more copy of a chunk for each
\* document of it (one each when the documents are of distinct chunks).
add_documents(st, documents) ==
    LET new == {DocKey(documents[i]) : i \in 1..Len(documents)}
        distinct == Cardinality(new) = Len(documents)
        added(key) ==
            IF distinct THEN 1
            ELSE Cardinality({i \in 1..Len(documents) :
                                 DocKey(documents[i]) = key})
    IN [key \in new |-> Copies(st, key) + added(key)] @@ st

\* How the embedding service answers the c-th add_documents call of a
\* build: a request of more than env.ceiling documents (when there is a
\* ceiling) is over the token limit; otherwise env.first lists the answers
\* to the first calls and env.then is the answer to every later call.
\* "token" is the max_tokens_per_request error, "other" any other error.
Answers == {"ok", "token", "other"}
NoCeiling == 0
Answer(env, c, documents) ==
    IF env.ceiling # NoCeiling /\ Len(documents) > env.ceiling THEN "token"
    ELSE IF c <= Len(env.first) THEN env.first[c] ELSE env.then

(***************************************************************************)
(* _add_documents_with_retry                                               *)
(***************************************************************************)
\* ctx is the store, the number of add_documents calls made, whether an
\* exception is on its way out, and the log of the requests made: the chunks
\* of each and the max_retries of the call that made it. attempt is the
\* loop variable.
NewCtx(st) == [store |-> st, calls |-> 0, raised |-> FALSE, log |-> <<>>]

Keys(documents) == [i \in 1..Len(documents) |-> DocKey(documents[i])]

\* vectorstore.add_documents(documents) is called.
Submit(ctx, documents, max_retries) ==
    [ctx EXCEPT !.calls = ctx.calls + 1,
                !.log = Append(@, [documents |-> Keys(documents),
                                   max_retries |-> max_retries])]

\* The last attempt failed and the method returns all the same.
GiveUp(called) == called

\* raise: the last attempt failed.
Reraise(called) == [called EXCEPT !.raised = TRUE]

RECURSIVE add_documents_with_retry(_, _, _, _, _)
add_documents_with_retry(ctx, env, documents, max_retries, attempt) ==
    IF ctx.raised \/ attempt >= max_retries THEN ctx
    ELSE LET answer == Answer(env, ctx.calls + 1, documents)
             called == Submit(ctx, documents, max_retries)
             mid == Len(documents) \div 2
         IN IF answer = "ok"
            THEN [called EXCEPT !.store = add_documents(ctx.store, documents)]
            ELSE IF answer = "token"
            THEN IF attempt < max_retries - 1
                 THEN IF mid > 0
                      THEN add_documents_with_retry(
                               add_documents_with_retry(
                                   called, env, SubSeq(documents, 1, mid),
                                   max_retries - 1, 0),
                               env, SubSeq(documents, mid + 1, Len(documents)),
                               max_retries - 1, 0)
                      ELSE add_documents_with_retry(called, env, documents,
                                                    max_retries, attempt + 1)
                 ELSE Reraise(called)
            ELSE IF attempt < max_retries - 1
                 THEN add_documents_with_retry(called, env, documents,
                                               max_retries, attempt + 1)
                 ELSE Reraise(called)

(***************************************************************************)
(* build_vectorstore: the batches                                          *)
(***************************************************************************)
Slice(s, from, size) ==
    SubSeq(s, from, IF from + size - 1 < Len(s) THEN from + size - 1 ELSE Len(s))

\* len(batch_text.split()) of ' '.join(doc.page_content for doc in batch)
RECURSIVE WordsUpTo(_, _)
WordsUpTo(batch, n) ==
    IF n = 0 THEN 0
    ELSE WordCount(batch[n].page_content) + WordsUpTo(batch, n - 1)

BatchWords(batch) == WordsUpTo(batch, Len(batch))

\* approx_tokens > 200000, with approx_tokens = words * 1.3
TooLarge(batch) == 13 * BatchWords(batch) > 10 * token_margin

\* max(1, int(100 * 200000 / approx_tokens))
smaller_batch_size(batch) ==
    LET q == (reduce_factor * token_margin * 10) \div (13 * BatchWords(batch))
    IN IF q > 1 THEN q ELSE 1

\* for j in range(0, len(batch), smaller_batch_size): the sub-batches from
\* position j (1-based) on.
RECURSIVE AddSubBatches(_, _, _, _, _)
AddSubBatches(ctx, env, batch, size, j) ==
    IF j > Len(batch) \/ ctx.raised THEN ctx
    ELSE AddSubBatches(
             add_documents_with_retry(ctx, env, Slice(batch, j, size),
                                      default_max_retries, 0),
             env, batch, size, j + size)

\* for i in range(0, len(documents), batch_size): the batches from position
\* i (1-based) on.
RECURSIVE AddBatches(_, _, _, _)
AddBatches(ctx, env, documents, i) ==
    IF i > Len(documents) \/ ctx.raised THEN ctx
    ELSE LET batch == Slice(documents, i, batch_size)
             done == IF TooLarge(batch)
                     THEN AddSubBatches(ctx, env, batch,
                                        smaller_batch_size(batch), 1)
                     ELSE add_documents_with_retry(ctx, env, batch,
                                                   default_max_retries, 0)
         IN AddBatches(done, env, documents, i + batch_size)

(***************************************************************************)
(* build_vectorstore                                                       *)
(***************************************************************************)
\* An enhanced file is [kind, video_id, n_segments]: kind "unreadable" when
\* json.load fails on it, "malformed" when it loads but its transcript makes
\* _process_video_for_vectorstore raise, "ok" otherwise.
Readable(file) == file.kind # "unreadable"

\* n segments of ten seconds each, each one word of chunk_size characters.
Segments(n) ==
    [i \in 1..n |-> [text |-> [lead |-> 0, ws |-> <<chunk_size>>],
                     start_seconds |-> (i - 1) * 10,
                     end_seconds |-> i * 10]]

\* video_data = json.load(f)
LoadVideoData(file) ==
    [video_id |-> file.video_id, segments |-> Segments(file.n_segments)]

\* build_info.json: [kind |-> "absent"] while the file does not exist.
NoBuildInfo == [kind |-> "absent"]

\* build_info.json written before processed_video_ids existed.
LegacyBuildInfo == [kind |-> "legacy"]

\* build_info.get('processed_video_ids', [])
ManifestIds(info) == IF info.kind = "ok" THEN info.processed_video_ids ELSE {}

\* The video_id metadata of the documents of the store st.
StoredVideoIds(st) == {key[1] : key \in DOMAIN st}

\* The ids _filter_new_enhanced_files takes as processed: those of
\* build_info.json, or, when it has none, those of the documents of the
\* store.
AlreadyIndexed(info, st) ==
    IF info.kind = "legacy" THEN StoredVideoIds(st) ELSE ManifestIds(info)

\* _filter_new_enhanced_files: a file that cannot be read counts as new.
filter_new_enhanced_files(enhanced_files, info, st) ==
    LET processed_video_ids == AlreadyIndexed(info, st)
    IN SelectSeq(enhanced_files,
                 LAMBDA f : \/ ~Readable(f)
                            \/ f.video_id \notin processed_video_ids)

\* The loop over enhanced_files that builds documents: a file that fails
\* is logged and skipped.
RECURSIVE ProcessFiles(_)
ProcessFiles(enhanced_files) ==
    IF enhanced_files = <<>>
    THEN [documents |-> <<>>, video_count |-> 0, segment_count |-> 0]
    ELSE LET rest == ProcessFiles(SubSeq(enhanced_files, 1,
                                         Len(enhanced_files) - 1))
             file == enhanced_files[Len(enhanced_files)]
             out == process_video_for_vectorstore(RAGConfig, LoadVideoData(file))
         IN IF file.kind # "ok" THEN rest
            ELSE [documents |-> rest.documents \o out.documents,
                  video_count |-> rest.video_count + 1,
                  segment_count |-> rest.segment_count + out.segments]

\* The loop that collects processed_video_ids: every file that can be read.
CollectProcessedIds(enhanced_files) ==
    LET readable == SelectSeq(enhanced_files, Readable)
    IN [i \in 1..Len(readable) |-> readable[i].video_id]

SeqToSet(s) == {s[i] : i \in 1..Len(s)}

\* all_processed_ids = list(set(existing_processed_ids + processed_video_ids))
MergeIdsReplacing(existing, processed) == SeqToSet(processed)
MergeIds(existing, processed) == existing \cup SeqToSet(processed)

NoNewFilesReport ==
    [success |-> TRUE, incremental_mode |-> TRUE,
     build_info |-> [total_videos |-> 0, total_segments |-> 0,
                     total_chunks |-> 0, new_videos_count |-> 0]]

Failure(error) == [success |-> FALSE, error |-> error]

\* build_vectorstore, lines 155-234: the files to process (all of them, or
\* the new ones of an incremental build) and their documents.
CollectDocuments(incremental, files_in_dir, info, st) ==
    LET selected == IF incremental
                    THEN filter_new_enhanced_files(files_in_dir, info, st)
                    ELSE files_in_dir
        made == ProcessFiles(selected)
    IN [selected |-> selected, documents |-> made.documents,
        video_count |-> made.video_count,
        segment_count |-> made.segment_count]

\* build_info, lines 286-327: the build metadata a build over collected
\* writes when build_info.json listed existing_processed_ids.
BuildInfo(incremental, collected, existing_processed_ids) ==
    [kind |-> "ok",
     total_videos |-> collected.video_count,
     total_segments |-> collected.segment_count,
     total_chunks |-> Len(collected.documents),
     new_videos_count |-> Len(CollectProcessedIds(collected.selected)),
     incremental_mode |-> incremental,
     processed_video_ids |->
         MergeIds(existing_processed_ids,
                  CollectProcessedIds(collected.selected))]

\* build_vectorstore from there on, on the store st and build_info.json
\* info of the store directory, with the embedding service answering as env.
StoreDocuments(incremental, collected, st, info, env) ==
    LET selected == collected.selected
        documents == collected.documents
        \* a full rebuild removes the directory, build_info.json with it
        opened == IF incremental THEN st ELSE NoDocs
        kept_info == IF incremental THEN info ELSE NoBuildInfo
        ctx == AddBatches(NewCtx(opened),
                          env, documents, 1)
        processed_video_ids == CollectProcessedIds(selected)
        existing_processed_ids ==
            IF incremental THEN ManifestIds(info) ELSE {}
        build_info == BuildInfo(incremental, collected, existing_processed_ids)
        unchanged == [store |-> st, build_info |-> info, loaded |-> FALSE]
    IN IF incremental /\ selected = <<>>
       THEN unchanged @@ [report |-> NoNewFilesReport]
       ELSE IF selected = <<>>
       THEN unchanged @@ [report |-> Failure("No enhanced files found")]
       ELSE IF documents = <<>>
       THEN unchanged @@ [report |-> Failure("No documents created")]
       ELSE IF ctx.raised
       THEN [store |-> ctx.store, build_info |-> kept_info, loaded |-> FALSE,
             report |-> Failure("add_documents")]
       ELSE [store |-> ctx.store, build_info |-> build_info, loaded |-> TRUE,
             report |-> [success |-> TRUE, build_info |-> build_info]]

(***************************************************************************)
(* The build specification: enhanced files arrive in the input directory   *)
(* and build_vectorstore is called on the default store.                   *)
(***************************************************************************)
VideoIds == <<"v1", "v2", "v3", "v4">>

FileShapes ==
    {[kind |-> "ok", n_segments |-> n] : n \in {0, 1, batch_size}}
    \cup {[kind |-> k, n_segments |-> 0] : k \in {"unreadable", "malformed"}}

Envs == {[first |-> f, then |-> t, ceiling |-> NoCeiling] :
            f \in SeqsUpTo(Answers, MaxAnswers), t \in Answers}

InitBuild ==
    /\ files = <<>>
    /\ store = NoDocs
    /\ build_info_json = NoBuildInfo
    /\ last = [kind |-> "none"]
    /\ builds = 0
    /\ dirty = FALSE
    /\ allIncremental = TRUE
    /\ call = NoCall
    /\ ret = NoCall
    /\ vectorstore = NoStore
    /\ channels = <<"chA", "chB">>
    /\ enabled = [c \in Tenants |-> TRUE]
    /\ stores = [id \in StoreIds |-> EmptyStore]
    /\ searchOut = [op |-> "none"]

\* The enhancer writes a new *_enhanced.json file.
AddFile(shape) ==
    /\ Len(files) < MaxFiles
    /\ files' = Append(files, [kind |-> shape.kind,
                               video_id |-> VideoIds[Len(files) + 1],
                               n_segments |-> shape.n_segments])
    /\ dirty' = TRUE
    /\ UNCHANGED <<store, build_info_json, last, builds, allIncremental,
                   vectorstore, channels, enabled, stores, searchOut, fnVars>>

\* A call of build_vectorstore(incremental). last records the call for the
\* properties: its mode, its report, the units the build selected and the
\* ids in build_info.json before it; dirty tells whether a file arrived since
\* the build before.
BuildVectorstore(incremental) ==
    /\ builds < MaxBuilds
    /\ \E collected \in {CollectDocuments(incremental, files, build_info_json,
                                          store)} :
       \E env \in Envs :
          \E out \in {StoreDocuments(incremental, collected, store,
                                    build_info_json, env)} :
          /\ store' = out.store
          /\ build_info_json' = out.build_info
          /\ vectorstore' = IF out.loaded THEN Default ELSE vectorstore
          /\ last' = [kind |-> "build", incremental |-> incremental,
                      report |-> out.report,
                      selected |->
                          {f.video_id : f \in SeqToSet(collected.selected)},
                      ids_before |-> ManifestIds(build_info_json)]
    /\ builds' = builds + 1
    /\ dirty' = FALSE
    /\ allIncremental' = (allIncremental /\ incremental)
    /\ UNCHANGED <<files, channels, enabled, stores, searchOut, fnVars>>

NextBuild ==
    \/ \E shape \in FileShapes : AddFile(shape)
    \/ \E incremental \in BOOLEAN : BuildVectorstore(incremental)

Spec == InitBuild /\ [][NextBuild]_vars

(***************************************************************************)
(* The migration specification: the store directory was built by a version *)
(* that wrote build_info.json without processed_video_ids; the store holds *)
(* the chunks of the files of the input directory.                         *)
(***************************************************************************)
LegacyShapes == {shape \in FileShapes : shape.kind = "ok" /\ shape.n_segments > 0}

LegacyFiles(shape) ==
    <<[kind |-> shape.kind, video_id |-> VideoIds[1],
       n_segments |-> shape.n_segments]>>

InitLegacy ==
    /\ \E shape \in LegacyShapes :
          /\ files = LegacyFiles(shape)
          /\ store = add_documents(NoDocs,
                                   ProcessFiles(LegacyFiles(shape)).documents)
    /\ build_info_json = LegacyBuildInfo
    /\ last = [kind |-> "none"]
    /\ builds = 0
    /\ dirty = FALSE
    /\ allIncremental = TRUE
    /\ call = NoCall
    /\ ret = NoCall
    /\ vectorstore = NoStore
    /\ channels = <<"chA", "chB">>
    /\ enabled = [c \in Tenants |-> TRUE]
    /\ stores = [id \in StoreIds |-> EmptyStore]
    /\ searchOut = [op |-> "none"]

SpecLegacy == InitLegacy /\ [][NextBuild]_vars

(***************************************************************************)
(* The concurrency specification: two incremental builds run on the same   *)
(* store directory, step by step, while files arrive. call holds the       *)
(* position of each build and what it has read; the embedding service      *)
(* answers every request.                                                  *)
(***************************************************************************)
Builders == {1, 2}

\* build_info.json between open(build_info_file, 'w'), which empties it, and
\* the end of the with block: empty or cut short, json.load raises on it.
PartialBuildInfo == [kind |-> "partial"]

Answering == [first |-> <<>>, then |-> "ok", ceiling |-> NoCeiling]

NotStarted == [pc |-> "idle"]

InitConcurrent ==
    /\ files = <<>>
    /\ store = NoDocs
    /\ build_info_json = NoBuildInfo
    /\ call = [p \in Builders |-> NotStarted]
    /\ ret = NoCall
    /\ last = [kind |-> "none"]
    /\ builds = 0
    /\ dirty = FALSE
    /\ allIncremental = TRUE
    /\ vectorstore = NoStore
    /\ channels = <<"chA", "chB">>
    /\ enabled = [c \in Tenants |-> TRUE]
    /\ stores = [id \in StoreIds |-> EmptyStore]
    /\ searchOut = [op |-> "none"]

restOfBuild == <<last, builds, dirty, allIncremental, vectorstore, channels,
                 enabled, stores, searchOut, ret>>

\* Lines 137-234 of build p: it reads build_info.json (saw), selects the new
\* files and makes their documents; with nothing to store it returns.
SelectFiles(p) ==
    /\ call[p].pc = "idle"
    /\ \E collected \in {CollectDocuments(TRUE, files, build_info_json, store)} :
          call' = [call EXCEPT ![p] =
                     [pc |-> IF collected.documents = <<>> THEN "done"
                             ELSE "collected",
                      saw |-> build_info_json.kind,
                      collected |-> collected]]
    /\ UNCHANGED <<files, store, build_info_json, restOfBuild>>

\* Lines 236-282 of build p: the documents go to the store.
AddToStore(p) ==
    /\ call[p].pc = "collected"
    /\ store' = AddBatches(NewCtx(store),
                           Answering, call[p].collected.documents, 1).store
    /\ call' = [call EXCEPT ![p].pc = "stored"]
    /\ UNCHANGED <<files, build_info_json, restOfBuild>>

\* Lines 298-307 of build p: existing_processed_ids is read.
ReadExisting(p) ==
    /\ call[p].pc = "stored"
    /\ call' = [call EXCEPT ![p] =
                  [pc |-> "merged", saw |-> call[p].saw,
                   collected |-> call[p].collected,
                   build_info |-> BuildInfo(TRUE, call[p].collected,
                                            ManifestIds(build_info_json))]]
    /\ UNCHANGED <<files, store, build_info_json, restOfBuild>>

\* Line 329 of build p: open(build_info_file, 'w') empties the file.
OpenBuildInfo(p) ==
    /\ call[p].pc = "merged"
    /\ build_info_json' = PartialBuildInfo
    /\ call' = [call EXCEPT ![p].pc = "open"]
    /\ UNCHANGED <<files, store, restOfBuild>>

\* The text json.dump writes is as long as its id list.
Shorter(info, other) ==
    Cardinality(info.processed_video_ids)
        < Cardinality(other.processed_video_ids)

\* Lines 330-331 of build p: json.dump and the end of the with block. The
\* text is written from position 0 over what the file holds: when the
\* other build wrote a longer text since the file was opened, its tail
\* stays after the text of p.
CloseBuildInfo(p) ==
    /\ call[p].pc = "open"
    /\ build_info_json' =
          IF /\ build_info_json.kind = "ok"
             /\ Shorter(call[p].build_info, build_info_json)
          THEN PartialBuildInfo
          ELSE call[p].build_info
    /\ call' = [call EXCEPT ![p].pc = "done"]
    /\ UNCHANGED <<files, store, restOfBuild>>

NextConcurrent ==
    \/ \E shape \in FileShapes : AddFile(shape)
    \/ \E p \in Builders : SelectFiles(p)
    \/ \E p \in Builders : AddToStore(p)
    \/ \E p \in Builders : ReadExisting(p)
    \/ \E p \in Builders : OpenBuildInfo(p)
    \/ \E p \in Builders : CloseBuildInfo(p)

SpecConcurrent == InitConcurrent /\ [][NextConcurrent]_vars

(***************************************************************************)
(* The damaged-manifest specification: the store holds the chunks of the   *)
(* files of the input directory and build_info.json exists but json.load   *)
(* raises on it.                                                           *)
(***************************************************************************)
InitUnreadable ==
    /\ \E shape \in LegacyShapes :
          /\ files = LegacyFiles(shape)
          /\ store = add_documents(NoDocs,
                                   ProcessFiles(LegacyFiles(shape)).documents)
    /\ build_info_json = PartialBuildInfo
    /\ last = [kind |-> "none"]
    /\ builds = 0
    /\ dirty = FALSE
    /\ allIncremental = TRUE
    /\ call = NoCall
    /\ ret = NoCall
    /\ vectorstore = NoStore
    /\ channels = <<"chA", "chB">>
    /\ enabled = [c \in Tenants |-> TRUE]
    /\ stores = [id \in StoreIds |-> EmptyStore]
    /\ searchOut = [op |-> "none"]

SpecUnreadable == InitUnreadable /\ [][NextBuild]_vars

(***************************************************************************)
(* The retrieval specification: the registry and the stores are drawn by   *)
(* Init; the actions are the calls of the retrieval engine.                *)
(***************************************************************************)
\* Distance lists as a store reports them: nearest first.
NearestFirst(S, n) ==
    {s \in SeqsUpTo(S, n) : \A i \in 1..Len(s) - 1 : s[i] <= s[i + 1]}

\* The documents of store id whose distances to the query are ds.
DocsOf(id, ds) == [i \in 1..Len(ds) |-> [doc |-> <<id, i>>, score |-> ds[i]]]

\* the documents of a store that cannot be read are never seen
StoreStates(id, n) ==
    {[status |-> "ok", docs |-> DocsOf(id, ds)] : ds \in NearestFirst(Scores, n)}
    \cup {[status |-> st, docs |-> <<>>] : st \in StoreStatus \ {"ok"}}

\* One channel store and the default store hold documents.
InitSearch ==
    /\ channels = <<"chA", "chB">>
    /\ enabled = [c \in Tenants |-> TRUE]
    /\ \E a \in StoreStates("chA", MaxStoreDocs),
          d \in StoreStates(Default, MaxStoreDocs) :
          stores = [id \in StoreIds |->
                      IF id = "chA" THEN a ELSE IF id = Default THEN d
                      ELSE EmptyStore]
    /\ vectorstore = NoStore
    /\ searchOut = [op |-> "none"]
    /\ files = <<>>
    /\ store = NoDocs
    /\ build_info_json = NoBuildInfo
    /\ last = [kind |-> "none"]
    /\ builds = 0
    /\ dirty = FALSE
    /\ allIncremental = TRUE
    /\ call = NoCall
    /\ ret = NoCall

\* load_vectorstore(): False when the directory is missing or Chroma fails.
LoadVectorstore ==
    /\ stores[Default].status \in {"ok", "queryfail"}
    /\ vectorstore' = Default
    /\ UNCHANGED <<channels, enabled, stores, searchOut, buildVars, fnVars>>

SearchTopics(ch, k) ==
    /\ searchOut' = [op |-> "search_topics", channel |-> ch, k |-> k,
                     out |-> search_topics(vectorstore, stores, ch, k)]
    /\ UNCHANGED <<channels, enabled, stores, vectorstore, buildVars, fnVars>>

NextSearch ==
    \/ LoadVectorstore
    \/ \E ch \in Tenants \cup {NoChannel}, k \in 1..MaxK : SearchTopics(ch, k)

SpecSearch == InitSearch /\ [][NextSearch]_vars

(***************************************************************************)
(* The unified retrieval specification: the registry and the channel       *)
(* stores are drawn by Init.                                               *)
(***************************************************************************)
InitUnified ==
    /\ channels \in TenantOrders
    /\ enabled \in [Tenants -> BOOLEAN]
    /\ \E a \in StoreStates("chA", MaxTenantDocs),
          b \in StoreStates("chB", MaxTenantDocs) :
          /\ Len(a.docs) + Len(b.docs) <= MaxTenantDocs
          /\ stores = [id \in StoreIds |->
                         IF id = "chA" THEN a ELSE IF id = "chB" THEN b
                         ELSE EmptyStore]
    /\ vectorstore = NoStore
    /\ searchOut = [op |-> "none"]
    /\ files = <<>>
    /\ store = NoDocs
    /\ build_info_json = NoBuildInfo
    /\ last = [kind |-> "none"]
    /\ builds = 0
    /\ dirty = FALSE
    /\ allIncremental = TRUE
    /\ call = NoCall
    /\ ret = NoCall

SearchUnified(k, channel_filter) ==
    /\ searchOut' = [op |-> "search_unified", channel |-> channel_filter,
                     k |-> k,
                     out |-> search_unified(channels, enabled, vectorstore,
                                            stores, k, channel_filter)]
    /\ UNCHANGED <<channels, enabled, stores, vectorstore, buildVars, fnVars>>

NextUnified ==
    \E k \in 1..MaxK, f \in Tenants \cup {NoChannel} : SearchUnified(k, f)

SpecUnified == InitUnified /\ [][NextUnified]_vars

(***************************************************************************)
(* The specifications of the helper methods: Init draws the arguments of   *)
(* one call, the action is the call.                                       *)
(***************************************************************************)
\* Nothing is built and nothing is searched.
Idle ==
    /\ channels = <<"chA", "chB">>
    /\ enabled = [c \in Tenants |-> TRUE]
    /\ stores = [id \in StoreIds |-> EmptyStore]
    /\ vectorstore = NoStore
    /\ searchOut = [op |-> "none"]
    /\ files = <<>>
    /\ store = NoDocs
    /\ build_info_json = NoBuildInfo
    /\ last = [kind |-> "none"]
    /\ builds = 0
    /\ dirty = FALSE
    /\ allIncremental = TRUE

\* The call returns: ret holds the method and what it gave.
Return(op, out) ==
    /\ call.op = op
    /\ ret = NoCall
    /\ ret' = [op |-> op, out |-> out]
    /\ UNCHANGED <<call, channels, enabled, stores, vectorstore, searchOut,
                   buildVars>>

\* Segment texts, as the lengths of their words: none, a short word, a
\* long word, two words.
SegmentTexts == {<<>>, <<2>>, <<5>>, <<2, 2>>}

\* Small and large chunk_size, with no overlap, a small one and one as
\* large as the chunk.
ChunkerConfigs ==
    {[chunk_size |-> size, chunk_overlap |-> overlap] :
        size \in {4, 8}, overlap \in {0, 2, 8}}

\* Time-ordered segments of ten seconds each with the texts given.
TimedSegments(texts) ==
    [i \in 1..Len(texts) |-> [text |-> [lead |-> 0, ws |-> texts[i]],
                              start_seconds |-> (i - 1) * 10,
                              end_seconds |-> i * 10]]

InitChunker ==
    /\ Idle
    /\ \E rag \in ChunkerConfigs, texts \in SeqsUpTo(SegmentTexts, MaxSegments) :
          call = [op |-> "process_video", rag |-> rag,
                  video_data |-> [video_id |-> "v1",
                                  segments |-> TimedSegments(texts)]]
    /\ ret = NoCall

ProcessVideo ==
    Return("process_video",
           process_video_for_vectorstore(call.rag, call.video_data))

NextChunker == ProcessVideo

SpecChunker == InitChunker /\ [][NextChunker]_vars

\* The characters of the URLs: a letter, the two separators and a digit.
UrlChars == {"u", "?", "&", "1"}

\* start_seconds: absent, negative, zero, below one second, whole, with a
\* fraction (125.7), and large.
StartSeconds ==
    {NoSeconds} \cup {SecondsOf(t) : t \in {-15, 0, 5, 10, 99, 1257, 36000}}

InitTimestampUrl ==
    /\ Idle
    /\ \E url \in SeqsUpTo(UrlChars, MaxUrlLen), start \in StartSeconds :
          call = [op |-> "create_timestamp_url", video_url |-> url,
                  start_seconds |-> start]
    /\ ret = NoCall

CreateTimestampUrl ==
    Return("create_timestamp_url",
           create_timestamp_url(call.video_url, call.start_seconds))

NextTimestampUrl == CreateTimestampUrl

SpecTimestampUrl == InitTimestampUrl /\ [][NextTimestampUrl]_vars

\* Sentences too short to count, short, meaningful and longer than a
\* summary, with no, some and more overlap with the query.
SentenceShapes ==
    {[length |-> l, junk |-> j, overlap |-> o] :
        l \in {5, 15, 30, 151}, j \in {0, 2}, o \in {0, 1, 2}}

\* The language model fails, or answers with a short, a long or a very
\* long text.
LlmOutcomes ==
    {[raises |-> TRUE, response |-> [length |-> 0, junk |-> 0]]}
    \cup {[raises |-> FALSE, response |-> [length |-> l, junk |-> j]] :
             l \in {2, 150, 151, 152, 400}, j \in {0, 2}}

InitSummary ==
    /\ Idle
    /\ \E llm \in LlmOutcomes, sentences \in SeqsUpTo(SentenceShapes, MaxSentences) :
          call = [op |-> "generate_topic_summary", llm |-> llm,
                  content |-> sentences]
    /\ ret = NoCall

GenerateTopicSummary ==
    Return("generate_topic_summary",
           generate_topic_summary(call.llm, call.content))

NextSummary == GenerateTopicSummary

SpecSummary == InitSummary /\ [][NextSummary]_vars

\* A batch of n chunks of one video.
BatchOf(n) ==
    [i \in 1..n |-> [video_id |-> "v1", chunk |-> i,
                     page_content |-> [lead |-> 0, ws |-> <<chunk_size>>],
                     start_seconds |-> (i - 1) * 10, end_seconds |-> i * 10,
                     segment_count |-> 1]]

\* The service has a ceiling or none, and answers the first calls and the
\* later calls of a size it accepts in any way.
RetryEnvs ==
    {[first |-> f, then |-> t, ceiling |-> c] :
        f \in SeqsUpTo(Answers, MaxRetryAnswers), t \in Answers,
        c \in 0..MaxBatchDocs}

InitRetry ==
    /\ Idle
    /\ \E n \in 1..MaxBatchDocs, env \in RetryEnvs :
          call = [op |-> "add_documents_with_retry", documents |-> BatchOf(n),
                  env |-> env]
    /\ ret = NoCall

AddDocumentsWithRetry ==
    Return("add_documents_with_retry",
           add_documents_with_retry(
               NewCtx(NoDocs),
               call.env, call.documents, default_max_retries, 0))

NextRetry == AddDocumentsWithRetry

SpecRetry == InitRetry /\ [][NextRetry]_vars

(***************************************************************************)
(* The batch loop of build_vectorstore on documents of many words.         *)
(***************************************************************************)
\* A text of n one-letter words.
Words(n) == [lead |-> 0, ws |-> [k \in 1..n |-> 1]]

\* n chunks of one video, each of words words.
WordyBatch(n, words) ==
    [i \in 1..n |-> [video_id |-> "v1", chunk |-> i,
                     page_content |-> Words(words),
                     start_seconds |-> (i - 1) * 10, end_seconds |-> i * 10,
                     segment_count |-> 1]]

\* One, two or three documents or a whole batch of them; each of one word,
\* or of so many that 50 of them are estimated at 260000 or 455000 tokens,
\* or that two of them are estimated at 208000.
BatchLens == {1, 2, 3, batch_size}
DocWords == {1, 4000, 7000, 80000}
BatchShapes ==
    {sh \in [n : BatchLens, words : DocWords] : sh.n * sh.words <= 400000}

BatchEnvs ==
    {[first |-> f, then |-> t, ceiling |-> NoCeiling] :
        f \in SeqsUpTo(Answers, 1), t \in Answers}

InitBatches ==
    /\ Idle
    /\ \E sh \in BatchShapes, env \in BatchEnvs :
          call = [op |-> "add_batches", n |-> sh.n, words |-> sh.words,
                  env |-> env]
    /\ ret = NoCall

AddDocumentsInBatches ==
    Return("add_batches",
           AddBatches(NewCtx(NoDocs), call.env,
                      WordyBatch(call.n, call.words), 1))

NextBatches == AddDocumentsInBatches

SpecBatches == InitBatches /\ [][NextBatches]_vars

(***************************************************************************)
(* build_all_channels: the call builds the store of every enabled channel. *)
(***************************************************************************)
\* What build_vectorstore(incremental, channel_id) finds for a channel:
\* "ok"; "no_input": the phase 2 directory of the channel does not exist;
\* "unwritable": vectorstore_dir.mkdir raises.
ChannelDirs == {"ok", "no_input", "unwritable"}

\* What build_vectorstore gives when it returns: the report and the store.
Returned(out) == [raised |-> FALSE, store |-> out.store, report |-> out.report]

\* build_vectorstore(incremental, channel_id) on a channel whose store
\* directory is new: what it returns or that it raised, and the store it
\* leaves.
build_vectorstore(incremental, site) ==
    IF site.dir = "unwritable" THEN [raised |-> TRUE, store |-> NoDocs]
    ELSE IF site.dir = "no_input"
    THEN [raised |-> FALSE, store |-> NoDocs,
          report |-> Failure("Input directory not found")]
    ELSE Returned(StoreDocuments(
                      incremental,
                      CollectDocuments(incremental, site.files, NoBuildInfo,
                                       NoDocs),
                      NoDocs, NoBuildInfo, site.env))

FailedChannel(channel_id, error) ==
    [channel_id |-> channel_id, channel_name |-> channel_id, error |-> error]

\* The build of channel_id was called and left the store st. attempted
\* lists the channels build_vectorstore was called for, stores the store
\* each call left.
Attempted(acc, channel_id, st) ==
    [acc EXCEPT !.attempted = Append(@, channel_id),
                !.stores = (channel_id :> st) @@ @]

\* A loop body that lets the exception of a build go unrecorded.
RecordResultUnlessRaised(acc, channel_id, result) ==
    IF result.raised THEN Attempted(acc, channel_id, result.store)
    ELSE IF result.report.success
    THEN [Attempted(acc, channel_id, result.store)
             EXCEPT !.processed_channels =
                Append(@, [channel_name |-> channel_id,
                           result |-> result.report])]
    ELSE [Attempted(acc, channel_id, result.store)
             EXCEPT !.failed_channels =
                Append(@, FailedChannel(channel_id, result.report.error))]

\* The body of the loop of build_all_channels after the build of channel_id
\* gave result: the except branch, the success branch, the failure branch.
RecordResult(acc, channel_id, result) ==
    IF result.raised
    THEN [Attempted(acc, channel_id, result.store)
             EXCEPT !.failed_channels =
                Append(@, FailedChannel(channel_id, "exception"))]
    ELSE IF result.report.success
    THEN [Attempted(acc, channel_id, result.store)
             EXCEPT !.processed_channels =
                Append(@, [channel_name |-> channel_id,
                           result |-> result.report])]
    ELSE [Attempted(acc, channel_id, result.store)
             EXCEPT !.failed_channels =
                Append(@, FailedChannel(channel_id, result.report.error))]

\* for channel_info in enabled_channels, from position i on.
RECURSIVE BuildChannels(_, _, _, _, _)
BuildChannels(acc, incremental, enabled_channels, sites, i) ==
    IF i > Len(enabled_channels) THEN acc
    ELSE BuildChannels(
             RecordResult(acc, enabled_channels[i],
                          build_vectorstore(incremental,
                                            sites[enabled_channels[i]])),
             incremental, enabled_channels, sites, i + 1)

NewResults(enabled_channels) ==
    [total_channels |-> Len(enabled_channels),
     processed_channels |-> <<>>, failed_channels |-> <<>>,
     attempted |-> <<>>, stores |-> <<>>]

\* success_rate, in ten-thousandths.
Completed(overall_results, enabled_channels) ==
    [success_rate |-> (One * Len(overall_results.processed_channels))
                      \div Len(enabled_channels)] @@ overall_results

BuildEnabled(incremental, enabled_channels, sites) ==
    IF enabled_channels = <<>>
    THEN Failure("No enabled channels found")
    ELSE Completed(BuildChannels(NewResults(enabled_channels), incremental,
                                 enabled_channels, sites, 1),
                   enabled_channels)

build_all_channels(incremental, chs, en, sites) ==
    BuildEnabled(incremental, get_enabled_channels(chs, en), sites)

\* The phase 2 directory of a channel: empty, one unit, one unit that cannot
\* be processed.
ChannelFiles ==
    {<<>>}
    \cup {<<[kind |-> k, video_id |-> VideoIds[1], n_segments |-> 1]>> :
             k \in {"ok", "malformed"}}

\* The embedding service answers a channel's build, or fails it.
ChannelEnvs ==
    {[first |-> <<>>, then |-> t, ceiling |-> NoCeiling] : t \in {"ok", "other"}}

Sites == [dir : ChannelDirs, files : ChannelFiles, env : ChannelEnvs]

InitBuildAll ==
    /\ channels \in TenantOrders
    /\ enabled \in [Tenants -> BOOLEAN]
    /\ stores = [id \in StoreIds |-> EmptyStore]
    /\ vectorstore = NoStore
    /\ searchOut = [op |-> "none"]
    /\ files = <<>>
    /\ store = NoDocs
    /\ build_info_json = NoBuildInfo
    /\ last = [kind |-> "none"]
    /\ builds = 0
    /\ dirty = FALSE
    /\ allIncremental = TRUE
    /\ \E incremental \in BOOLEAN, sites \in [Tenants -> Sites] :
          call = [op |-> "build_all_channels", incremental |-> incremental,
                  sites |-> sites]
    /\ ret = NoCall

BuildAllChannels ==
    Return("build_all_channels",
           build_all_channels(call.incremental, channels, enabled, call.sites))

NextBuildAll == BuildAllChannels

SpecBuildAll == InitBuildAll /\ [][NextBuildAll]_vars

(***************************************************************************)
(* Properties of search_topics.                                            *)
(***************************************************************************)
\* The store a search_topics call with channel ch reads.
StoreRead(ch) == IF ch = NoChannel THEN stores[Default] ELSE stores[ch]

\* The distance the store reports for a returned document.
DocScore(doc) == stores[doc[1]].docs[doc[2]].score

Min(a, b) == IF a < b THEN a ELSE b

TopicsCalled == searchOut.op = "search_topics"
TopicsResults == searchOut.out.results

C7_SingleStoreRanking ==
    (TopicsCalled /\ searchOut.out.requested > 0
                  /\ StoreRead(searchOut.channel).status = "ok") =>
        LET k == searchOut.k
            docs == StoreRead(searchOut.channel).docs
            id == IF searchOut.channel = NoChannel THEN Default
                  ELSE searchOut.channel
            fetched == 1..Min(2 * k, Len(docs))
            eligible == {p \in fetched :
                            One - docs[p].score >= similarity_threshold}
            rs == TopicsResults
            returned == {rs[i].doc[2] : i \in 1..Len(rs)}
        IN /\ searchOut.out.requested = 2 * k
           /\ Len(rs) = Min(k, Cardinality(eligible))
           /\ \A i \in 1..Len(rs) : rs[i].doc[1] = id /\ rs[i].doc[2] \in eligible
           /\ \A i, j \in 1..Len(rs) :
                 i < j =>
                    /\ rs[i].relevance_score >= rs[j].relevance_score
                    /\ DocScore(rs[i].doc) <= DocScore(rs[j].doc)
                    /\ DocScore(rs[i].doc) = DocScore(rs[j].doc)
                          => rs[i].doc[2] < rs[j].doc[2]
           /\ \A p \in eligible \ returned :
                 \A i \in 1..Len(rs) : docs[p].score >= DocScore(rs[i].doc)

\* A search that returned two results of equal relevance and left out an
\* eligible document.
C7_Witness ==
    /\ TopicsCalled
    /\ StoreRead(searchOut.channel).status = "ok"
    /\ Len(TopicsResults) = 2
    /\ TopicsResults[1].relevance_score = TopicsResults[2].relevance_score
    /\ DocScore(TopicsResults[1].doc) = DocScore(TopicsResults[2].doc)
    /\ \E p \in 1..Min(2 * searchOut.k, Len(StoreRead(searchOut.channel).docs)) :
          /\ One - StoreRead(searchOut.channel).docs[p].score
                >= similarity_threshold
          /\ \A i \in 1..2 : TopicsResults[i].doc[2] # p

(***************************************************************************)
(* Properties of search_unified.                                           *)
(***************************************************************************)
UnifiedCalled == searchOut.op = "search_unified"
UnifiedResults == searchOut.out.results

\* The channels a search_unified call queries: enabled and not filtered out.
Queried(f) == {t \in Tenants : enabled[t] /\ (f = NoChannel \/ f = t)}

\* The results that channel t has at or above the floor, as documents.
AboveFloorDocs(t) ==
    IF stores[t].status # "ok" THEN {}
    ELSE {<<t, p>> : p \in {q \in 1..Len(stores[t].docs) :
                               One - stores[t].docs[q].score
                                  >= similarity_threshold}}

ReturnedDocs == {UnifiedResults[i].doc : i \in 1..Len(UnifiedResults)}

C9_OrderIndependent ==
    UnifiedCalled =>
        \A o \in TenantOrders :
            search_unified(o, enabled, vectorstore, stores, searchOut.k,
                           searchOut.channel).results = UnifiedResults

\* The stores with every store that cannot be opened or queried replaced by
\* a readable store without documents.
Healthy(sts) ==
    [id \in DOMAIN sts |-> IF sts[id].status = "ok" THEN sts[id] ELSE EmptyStore]

\* C10: when the store of an enabled channel cannot be opened or queried,
\* search_unified does not raise and returns what it returns when that
\* channel has no results.
C10_TenantFailureIsolation ==
    UnifiedCalled =>
        /\ ~searchOut.out.raised
        /\ UnifiedResults =
              search_unified(channels, enabled, vectorstore, Healthy(stores),
                             searchOut.k, searchOut.channel).results

\* A unified search in which the channel queried first fails to open and the
\* other channel contributes a result.
C10_Witness ==
    /\ UnifiedCalled
    /\ searchOut.channel = NoChannel
    /\ \A t \in Tenants : enabled[t]
    /\ stores[channels[1]].status = "openfail"
    /\ Len(UnifiedResults) > 0
    /\ UnifiedResults[1].channel_id = channels[2]

(***************************************************************************)
(* Properties of build_vectorstore.                                        *)
(***************************************************************************)
\* A step that is a call of build_vectorstore.
BuildStep == builds' = builds + 1

\* The call before this step was a build, and no file arrived since.
SameUnits == last.kind = "build" /\ ~dirty

\* The units that have at least one chunk in the persistent store.
StoredUnits == {key[1] : key \in DOMAIN store}

\* The chunks this step added a copy of to the persistent store.
CommittedByStep == {key \in DOMAIN store' : Copies(store, key) < store'[key]}

\* C1: after an incremental build has succeeded, a second incremental build
\* over the unchanged units returns success with new_videos_count = 0 and
\* total_chunks = 0 and leaves the store and build_info.json unchanged.
C1_IdempotentIncrementalBuild ==
    [][(/\ BuildStep
        /\ SameUnits
        /\ last.incremental
        /\ last.report.success
        /\ last'.incremental)
       => /\ last'.report.success
          /\ last'.report.build_info.new_videos_count = 0
          /\ last'.report.build_info.total_chunks = 0
          /\ store' = store
          /\ build_info_json' = build_info_json]_vars

\* C2: an incremental build that fails after it committed chunks still
\* records the units of those chunks in build_info.json, and when the next
\* incremental build over the same units succeeds, no chunk is in the store
\* more than once.
C2_ResumeAfterFailure ==
    [][(BuildStep /\ last'.incremental)
       => /\ ~last'.report.success
             => \A key \in CommittedByStep :
                   key[1] \in ManifestIds(build_info_json')
          /\ (/\ SameUnits
              /\ last.incremental
              /\ ~last.report.success
              /\ last'.report.success)
             => \A key \in DOMAIN store' : store'[key] = 1]_vars

\* C3: after incremental builds only, the units that have a chunk in the
\* persistent store are exactly the processed_video_ids of build_info.json.
C3_StoreManifestAgreement ==
    allIncremental => StoredUnits = ManifestIds(build_info_json)

\* C4: every id in processed_video_ids before an incremental build is still
\* there after it, whether the build succeeds, fails or finds nothing new.
C4_ManifestMonotone ==
    [][(BuildStep /\ last'.incremental)
       => ManifestIds(build_info_json) \subseteq ManifestIds(build_info_json')]_vars

\* An incremental build that found ids recorded and added new ones to them.
C4_Witness ==
    /\ last.kind = "build"
    /\ last.incremental
    /\ last.report.success
    /\ last.ids_before # {}
    /\ last.ids_before \subseteq ManifestIds(build_info_json)
    /\ ManifestIds(build_info_json) # last.ids_before

\* C5: a unit a build selected whose file cannot be read or whose segment
\* list is malformed is not in processed_video_ids after the build, and the
\* units whose chunks the build committed are.
C5_FailedUnitsRetried ==
    [][BuildStep
       => /\ \A i \in 1..Len(files) :
                (/\ files[i].video_id \in last'.selected
                 /\ files[i].kind \in {"unreadable", "malformed"})
                => files[i].video_id \notin ManifestIds(build_info_json')
          /\ \A key \in CommittedByStep :
                key[1] \in ManifestIds(build_info_json')]_vars

(***************************************************************************)
(* Properties of the outcome of search_topics.                             *)
(***************************************************************************)
\* What the caller of search_topics gets: an exception or the list.
Outcome(out) == [raised |-> out.raised, results |-> out.results]

\* A readable store whose only document is below the floor.
BelowFloorStore ==
    [status |-> "ok", docs |-> DocsOf("chA", <<One - similarity_threshold + 1>>)]

\* The outcome of a search over a readable store in which nothing reaches
\* the floor.
EmptyOutcome ==
    Outcome(search_topics(NoStore, [id \in StoreIds |-> BelowFloorStore],
                          "chA", 1))

\* The store of the last search_topics call is missing, cannot be opened,
\* or its query call failed.
SearchFailed ==
    IF searchOut.channel = NoChannel
    THEN vectorstore = NoStore \/ stores[vectorstore].status # "ok"
    ELSE stores[searchOut.channel].status # "ok"

\* C11: the outcome of a search whose store is missing, unreadable or whose
\* query call failed differs from the outcome of a search over a readable
\* store in which nothing reaches the relevance floor.
C11_EmptyDistinctFromError ==
    (TopicsCalled /\ SearchFailed) => Outcome(searchOut.out) # EmptyOutcome

(***************************************************************************)
(* Properties of the reports of build_vectorstore.                         *)
(***************************************************************************)
\* C12: a build called when the input directory holds no enhanced file
\* reports success = false, in incremental mode as in full mode.
C12_ZeroUnitsFail ==
    (last.kind = "build" /\ files = <<>>) => ~last.report.success

(***************************************************************************)
(* Properties of _process_video_for_vectorstore.                           *)
(***************************************************************************)
ChunkerReturned == ret.op = "process_video"
Chunks == ret.out.documents
InputSegments == call.video_data.segments
HasText(segment) == segment.text.ws # <<>>

\* C13: the chunks of a time-ordered segment list, segments with empty
\* text included, have non-decreasing start_seconds, under every
\* chunk_size and chunk_overlap.
C13_ChunkTimeMonotone ==
    ChunkerReturned =>
        \A i \in 1..Len(Chunks) - 1 :
            Chunks[i].start_seconds <= Chunks[i + 1].start_seconds

\* A list with a segment of empty text that gave three chunks or more, one
\* of them starting before the chunk before it ends and one starting later
\* than the chunk before it starts.
C13_Witness ==
    /\ ChunkerReturned
    /\ \E j \in 1..Len(InputSegments) : ~HasText(InputSegments[j])
    /\ Len(Chunks) >= 3
    /\ \E i \in 1..Len(Chunks) - 1 :
          Chunks[i + 1].start_seconds < Chunks[i].end_seconds
    /\ \E i \in 1..Len(Chunks) - 1 :
          Chunks[i].start_seconds < Chunks[i + 1].start_seconds

\* The segment is within the time range of the chunk.
Covers(chunk, segment) ==
    /\ chunk.start_seconds <= segment.start_seconds
    /\ segment.end_seconds <= chunk.end_seconds

UrlReturned == ret.op = "create_timestamp_url"

\* The number a string of decimal digits stands for, -1 if it is not one.
RECURSIVE DecimalValue(_)
DecimalValue(str) ==
    IF str = <<>> THEN -1
    ELSE LET d == CHOOSE k \in 0..10 :
                     k = 10 \/ DigitChars[k + 1] = str[Len(str)]
             front == SubSeq(str, 1, Len(str) - 1)
         IN IF d = 10 THEN -1
            ELSE IF front = <<>> THEN d
            ELSE IF DecimalValue(front) <= 0 THEN -1
            ELSE 10 * DecimalValue(front) + d

\* str is base, then the separator, then t=<n>s with n in decimal.
IsTimestamped(str, base, separator, n) ==
    LET from == Len(base) + 4
    IN /\ Len(str) >= Len(base) + 5
       /\ SubSeq(str, 1, Len(base) + 3) = base \o <<separator, "t", "=">>
       /\ str[Len(str)] = "s"
       /\ DecimalValue(SubSeq(str, from, Len(str) - 1)) = n

\* C15: for start_seconds > 0 the result is the URL followed by &t=<n>s
\* when the URL contains '?' and by ?t=<n>s otherwise, n being
\* start_seconds truncated to an integer; for start_seconds zero or absent
\* it is the URL.
C15_TimestampUrl ==
    UrlReturned =>
        LET url == call.video_url
            start == call.start_seconds
        IN IF start.given /\ start.tenths > 0
           THEN IsTimestamped(ret.out, url,
                              IF Contains(url, "?") THEN "&" ELSE "?",
                              start.tenths \div 10)
           ELSE (~start.given \/ start.tenths = 0) => ret.out = url

\* The call on a URL with a query and start_seconds = 125.7, which gave the
\* URL followed by &t=125s.
C15_Witness ==
    /\ UrlReturned
    /\ Contains(call.video_url, "?")
    /\ call.start_seconds = SecondsOf(1257)
    /\ ret.out = call.video_url \o <<"&", "t", "=", "1", "2", "5", "s">>

(***************************************************************************)
(* Properties of _generate_topic_summary.                                  *)
(***************************************************************************)
\* C16: the summary is at most 150 characters long, when the language
\* model answers and when it fails and _extract_key_sentences is used.
C16_SummaryLength ==
    ret.op = "generate_topic_summary" => ret.out.length <= summary_limit

(***************************************************************************)
(* Properties of _add_documents_with_retry.                                *)
(***************************************************************************)
RetryReturned == ret.op = "add_documents_with_retry"

\* The service fails only on requests over its ceiling, and accepts a
\* request of one document.
SizeLimitOnly(env) ==
    /\ env.ceiling >= 1
    /\ env.first = <<>>
    /\ env.then = "ok"

\* C17: when the store rejects the batch for its size, and only for that,
\* the method returns without raising; it reports no chunk as failed, so
\* every chunk of the batch is then stored, and stored once.
C17_TokenOverflowConserves ==
    (/\ RetryReturned
     /\ SizeLimitOnly(call.env)
     /\ Len(call.documents) > call.env.ceiling)
    => /\ ~ret.out.raised
       /\ \A i \in 1..Len(call.documents) :
             Copies(ret.out.store, DocKey(call.documents[i])) = 1

\* The units the store held when build_info.json had no processed_video_ids.
LegacyUnits == {VideoIds[1]}

\* C18: under the migration specification, no incremental build selects as
\* new a unit that was in the store when build_info.json had no
\* processed_video_ids.
C18_LegacyUnitsStayIndexed ==
    (last.kind = "build" /\ allIncremental)
    => last.selected \cap LegacyUnits = {}

\* The units a build over the files fs processed: those whose documents it
\* made (the ones video_count counts).
ProcessedUnits(fs) == {fs[i].video_id : i \in {j \in 1..Len(fs) : fs[j].kind = "ok"}}

\* The chunks a build over the files fs produced.
ProducedChunks(fs) ==
    LET documents == ProcessFiles(fs).documents
    IN {DocKey(documents[i]) : i \in 1..Len(documents)}

\* A full rebuild has returned success and no file has arrived since.
AfterFullRebuild ==
    /\ last.kind = "build"
    /\ ~last.incremental
    /\ last.report.success
    /\ ~dirty

\* The store holds the chunks of the full rebuild and nothing else.
C19_StoreReset ==
    AfterFullRebuild
    => /\ DOMAIN store = ProducedChunks(files)
       /\ \A key \in DOMAIN store : store[key] = 1

\* C19: after a successful full rebuild the store holds the chunks that
\* build produced and nothing else, and processed_video_ids is the set of
\* the units that build processed.
C19_FullRebuildResets ==
    /\ C19_StoreReset
    /\ AfterFullRebuild
       => ManifestIds(build_info_json) = ProcessedUnits(files)

(***************************************************************************)
(* Properties of build_all_channels.                                       *)
(***************************************************************************)
BuildAllReturned == ret.op = "build_all_channels"

EnabledChannels == get_enabled_channels(channels, enabled)

\* How many entries of the two lists are of channel c.
EntriesOf(out, c) ==
    Cardinality({i \in 1..Len(out.processed_channels) :
                    out.processed_channels[i].channel_name = c})
    + Cardinality({i \in 1..Len(out.failed_channels) :
                      out.failed_channels[i].channel_id = c})

\* C20: when build_all_channels returns with some channel enabled,
\* build_vectorstore was called for every enabled channel, in order, whatever
\* the builds before it did, and every enabled channel has exactly one entry
\* in processed_channels and failed_channels together; no other channel has
\* one.
C20_SiblingIsolation ==
    (BuildAllReturned /\ EnabledChannels # <<>>)
    => /\ ret.out.attempted = EnabledChannels
       /\ \A c \in Tenants :
             EntriesOf(ret.out, c) = IF enabled[c] THEN 1 ELSE 0

\* Both channels are enabled, the build of the first raised and the build of
\* the second succeeded.
C20_Witness ==
    /\ BuildAllReturned
    /\ Len(EnabledChannels) = 2
    /\ call.sites[EnabledChannels[1]].dir = "unwritable"
    /\ Len(ret.out.failed_channels) = 1
    /\ ret.out.failed_channels[1].channel_id = EnabledChannels[1]
    /\ Len(ret.out.processed_channels) = 1
    /\ ret.out.processed_channels[1].channel_name = EnabledChannels[2]
    /\ DOMAIN ret.out.stores[EnabledChannels[2]] # {}

(***************************************************************************)
(* Properties of concurrent builds.                                        *)
(***************************************************************************)
Started(p) == call[p].pc # "idle"

\* C21: what a build reads as build_info.json while another build runs is
\* no file, or a complete manifest: never an empty or cut file.
C21_AtomicManifestWrite ==
    \A p \in Builders : Started(p) => call[p].saw # "partial"

\* The units whose chunks build p put in the store.
CommittedBy(p) ==
    IF call[p].pc \in {"stored", "merged", "open", "done"}
          /\ "collected" \in DOMAIN call[p]
    THEN {call[p].collected.documents[i].video_id :
             i \in 1..Len(call[p].collected.documents)}
    ELSE {}

\* C22: when both builds have finished, processed_video_ids holds every
\* unit either of them committed.
C22_NoLostUpdate ==
    (\A p \in Builders : call[p].pc = "done")
    => \A p \in Builders : CommittedBy(p) \subseteq ManifestIds(build_info_json)

(***************************************************************************)
(* Properties of the requests of _add_documents_with_retry.                *)
(***************************************************************************)
RetryLog == ret.out.log

\* The first request, of the whole batch, was rejected for its size and the
\* batch was split in two.
SplitInTwo ==
    /\ RetryReturned
    /\ Len(call.documents) >= 2
    /\ Answer(call.env, 1, call.documents) = "token"

SecondHalf ==
    SubSeq(call.documents, Len(call.documents) \div 2 + 1, Len(call.documents))

\* C23: when the batch is split in two, the second half is submitted to the
\* store, whatever became of the first half.
C23_HalvesIndependent ==
    SplitInTwo
    => \E i \in 1..Len(RetryLog) : RetryLog[i].documents = Keys(SecondHalf)

\* How many requests were made with the chunks of request i.
TimesSubmitted(i) ==
    Cardinality({j \in 1..Len(RetryLog) :
                    RetryLog[j].documents = RetryLog[i].documents})

\* C25: when _add_documents_with_retry is over, no batch was submitted more
\* than max_retries (3) times, no request was made deeper than
\* max_retries - 1 splits, and either the error was raised or every
\* document of the batch is stored.
C25_BoundedRetry ==
    RetryReturned
    => /\ \A i \in 1..Len(RetryLog) :
             /\ TimesSubmitted(i) <= default_max_retries
             /\ TimesSubmitted(i) <= RetryLog[i].max_retries
             /\ default_max_retries - RetryLog[i].max_retries
                    <= default_max_retries - 1
       /\ \/ ret.out.raised
          \/ \A i \in 1..Len(call.documents) :
                Copies(ret.out.store, DocKey(call.documents[i])) = 1

\* A call that split twice, retried a quarter after a failure that was not
\* of size, and stored every document.
C25_Witness ==
    /\ RetryReturned
    /\ ~ret.out.raised
    /\ Len(call.documents) >= 4
    /\ \E i \in 1..Len(RetryLog) : RetryLog[i].max_retries = 1
    /\ \E i \in 1..Len(RetryLog) : TimesSubmitted(i) = 2

(***************************************************************************)
(* Properties of the batch loop of build_vectorstore.                      *)
(***************************************************************************)
BatchesReturned == ret.op = "add_batches"

RECURSIVE Flatten(_)
Flatten(ss) ==
    IF ss = <<>> THEN <<>>
    ELSE Flatten(SubSeq(ss, 1, Len(ss) - 1)) \o ss[Len(ss)]

\* C24: when a batch of more than one document is estimated above the
\* ceiling of 200000 tokens, every request made for it is of fewer documents
\* than the batch, and when every request is accepted the requests are the
\* batch cut in consecutive pieces.
C24_PreemptiveSplit ==
    (/\ BatchesReturned
     /\ call.n > 1
     /\ TooLarge(WordyBatch(call.n, call.words)))
    => /\ \A i \in 1..Len(ret.out.log) :
             Len(ret.out.log[i].documents) < call.n
       /\ (call.env.first = <<>> /\ call.env.then = "ok")
          => Flatten([i \in 1..Len(ret.out.log) |-> ret.out.log[i].documents])
                = Keys(WordyBatch(call.n, call.words))

\* A batch estimated above the ceiling that was cut in two requests.
C24_SplitHappens ==
    /\ BatchesReturned
    /\ TooLarge(WordyBatch(call.n, call.words))
    /\ Len(ret.out.log) = 2
    /\ Len(ret.out.log[1].documents) < call.n

(***************************************************************************)
(* Properties of the bounds and the content of the chunks.                 *)
(***************************************************************************)
FirstSegment(chunk) == InputSegments[chunk.chunk_segments[1]]
LastSegment(chunk) ==
    InputSegments[chunk.chunk_segments[Len(chunk.chunk_segments)]]

\* C26: every chunk starts at the start_seconds of the first segment
\* accumulated into it and ends at the end_seconds of the last one, so it
\* does not end before it starts.
C26_ChunkBounds ==
    ChunkerReturned =>
        \A k \in 1..Len(Chunks) :
            /\ Chunks[k].start_seconds = FirstSegment(Chunks[k]).start_seconds
            /\ Chunks[k].end_seconds = LastSegment(Chunks[k]).end_seconds
            /\ Chunks[k].start_seconds <= Chunks[k].end_seconds

\* The start of every chunk is that of its first segment.
C26_StartAtFirstSegment ==
    ChunkerReturned =>
        \A k \in 1..Len(Chunks) :
            /\ Chunks[k].start_seconds = FirstSegment(Chunks[k]).start_seconds
            /\ Chunks[k].start_seconds <= Chunks[k].end_seconds

\* The positions of the segments of a chunk.
SegmentsOf(chunk) ==
    {chunk.chunk_segments[j] : j \in 1..Len(chunk.chunk_segments)}

\* C29: every chunk after the first holds a segment that the chunk before
\* it does not hold.
C29_NoOverlapOnlyChunk ==
    ChunkerReturned =>
        \A k \in 2..Len(Chunks) :
            SegmentsOf(Chunks[k]) \ SegmentsOf(Chunks[k - 1]) # {}

(***************************************************************************)
(* Properties of the figures of build_info.json.                           *)
(***************************************************************************)
\* A unit without segments: _process_video_for_vectorstore makes no chunk.
EmptyUnit(file) == file.kind = "ok" /\ file.n_segments = 0

\* The files the last build selected.
SelectedFiles == {i \in 1..Len(files) : files[i].video_id \in last.selected}

\* A build has returned success and no file has arrived since.
AfterSuccessfulBuild ==
    /\ last.kind = "build"
    /\ last.report.success
    /\ ~dirty

\* C27: a unit without segments that a successful build selected is not
\* counted in total_videos and is not in processed_video_ids.
C27_EmptyUnitsReported ==
    AfterSuccessfulBuild
    => /\ \A i \in SelectedFiles :
             EmptyUnit(files[i])
             => files[i].video_id \notin ManifestIds(build_info_json)
       /\ last.report.build_info.total_videos
             = Cardinality({i \in SelectedFiles :
                               files[i].kind = "ok" /\ ~EmptyUnit(files[i])})

\* The number of documents in the store.
RECURSIVE CountDocs(_, _)
CountDocs(st, keys) ==
    IF keys = {} THEN 0
    ELSE LET key == CHOOSE k \in keys : TRUE
         IN st[key] + CountDocs(st, keys \ {key})

\* C28: after a successful build, total_chunks of build_info.json is the
\* number of documents in the store.
C28_TotalChunksIsStoreSize ==
    (AfterSuccessfulBuild /\ build_info_json.kind = "ok")
    => build_info_json.total_chunks = CountDocs(store, DOMAIN store)

(***************************************************************************)
(* Properties of builds over a build_info.json that cannot be read.        *)
(***************************************************************************)
\* C30: under the damaged-manifest specification, incremental builds do not
\* add a second copy of a chunk of a unit the store held, and a
\* build_info.json they write lists those units.
C30_UnreadableManifestNoReindex ==
    allIncremental
    => /\ \A key \in DOMAIN store : key[1] \in LegacyUnits => store[key] = 1
       /\ build_info_json.kind = "ok"
             => LegacyUnits \subseteq ManifestIds(build_info_json)

====
